---- MODULE Spec2Model ----
(***************************************************************************)
(* Model of the blueprint compiler of paguro                               *)
(* (src/paguro/models/vfm/_blueprint.py): collect_model_blueprint turns    *)
(* one or many schema trees into the text of a module of model classes.    *)
(*                                                                         *)
(* A string is a sequence of characters, each character a one-character    *)
(* string.  A piece of emitted text is a sequence of tokens: the fixed     *)
(* fragments of the f-strings are whole tokens, the characters that come   *)
(* from the input are one token each.                                      *)
(***************************************************************************)
EXTENDS Integers, Sequences, FiniteSets, TLC

(***************************************************************************)
(* Characters                                                              *)
(***************************************************************************)
AsciiLower == <<"a", "b", "c", "d", "e", "f", "g", "h", "i", "j", "k", "l", "m",
                "n", "o", "p", "q", "r", "s", "t", "u", "v", "w", "x", "y", "z">>

AsciiUpper == <<"A", "B", "C", "D", "E", "F", "G", "H", "I", "J", "K", "L", "M",
                "N", "O", "P", "Q", "R", "S", "T", "U", "V", "W", "X", "Y", "Z">>

AsciiDigits == <<"0", "1", "2", "3", "4", "5", "6", "7", "8", "9">>

Range(s) == {s[i] : i \in 1..Len(s)}

\* Letters outside ASCII that the host language accepts in identifiers.
NonAsciiLetters == {"é"}

AsciiLetters == Range(AsciiLower) \cup Range(AsciiUpper)

DigitChars == Range(AsciiDigits)

\* the character class 0-9a-zA-Z_ of _ident_re
WordChars == AsciiLetters \cup DigitChars \cup {"_"}

UpperOf ==
    [c \in Range(AsciiLower) |->
        AsciiUpper[CHOOSE i \in 1..Len(AsciiLower) : AsciiLower[i] = c]]

IsAsciiLetter(c) == c \in AsciiLetters

\* str.isdigit on a character of the class [0-9a-zA-Z_]
IsDigit(c) == c \in DigitChars

IsWordChar(c) == c \in WordChars

\* str.upper on one character
ToUpper(c) == IF c \in DOMAIN UpperOf THEN UpperOf[c] ELSE c

\* keyword.kwlist
Keywords ==
    { <<"F", "a", "l", "s", "e">>, <<"N", "o", "n", "e">>, <<"T", "r", "u", "e">>,
      <<"a", "n", "d">>, <<"a", "s">>, <<"a", "s", "s", "e", "r", "t">>,
      <<"a", "s", "y", "n", "c">>, <<"a", "w", "a", "i", "t">>,
      <<"b", "r", "e", "a", "k">>, <<"c", "l", "a", "s", "s">>,
      <<"c", "o", "n", "t", "i", "n", "u", "e">>, <<"d", "e", "f">>,
      <<"d", "e", "l">>, <<"e", "l", "i", "f">>, <<"e", "l", "s", "e">>,
      <<"e", "x", "c", "e", "p", "t">>, <<"f", "i", "n", "a", "l", "l", "y">>,
      <<"f", "o", "r">>, <<"f", "r", "o", "m">>, <<"g", "l", "o", "b", "a", "l">>,
      <<"i", "f">>, <<"i", "m", "p", "o", "r", "t">>, <<"i", "n">>, <<"i", "s">>,
      <<"l", "a", "m", "b", "d", "a">>, <<"n", "o", "n", "l", "o", "c", "a", "l">>,
      <<"n", "o", "t">>, <<"o", "r">>, <<"p", "a", "s", "s">>,
      <<"r", "a", "i", "s", "e">>, <<"r", "e", "t", "u", "r", "n">>,
      <<"t", "r", "y">>, <<"w", "h", "i", "l", "e">>, <<"w", "i", "t", "h">>,
      <<"y", "i", "e", "l", "d">> }

\* keyword.iskeyword
IsKeyword(s) == s \in Keywords

\* str.isidentifier: a letter or underscore, then letters, digits, underscores
IsIdentifier(s) ==
    /\ Len(s) > 0
    /\ IsAsciiLetter(s[1]) \/ s[1] = "_" \/ s[1] \in NonAsciiLetters
    /\ \A i \in 2..Len(s) : IsWordChar(s[i]) \/ s[i] \in NonAsciiLetters

\* str(i) of a non-negative integer
RECURSIVE IntToStr(_)
IntToStr(i) ==
    IF i < 10 THEN <<AsciiDigits[i + 1]>>
    ELSE Append(IntToStr(i \div 10), AsciiDigits[(i % 10) + 1])

(***************************************************************************)
(* Identifier helpers                                                      *)
(***************************************************************************)
\* _ident_re.sub("_", name): every maximal run of characters outside
\* [0-9a-zA-Z_] becomes one underscore.
RECURSIVE IdentReSub(_)
IdentReSub(name) ==
    IF name = <<>> THEN <<>>
    ELSE IF IsWordChar(Head(name)) THEN <<Head(name)>> \o IdentReSub(Tail(name))
    ELSE IF Len(name) > 1 /\ ~IsWordChar(name[2]) THEN IdentReSub(Tail(name))
    ELSE <<"_">> \o IdentReSub(Tail(name))

RECURSIVE LStrip(_)
LStrip(s) == IF s # <<>> /\ Head(s) = "_" THEN LStrip(Tail(s)) ELSE s

RECURSIVE RStrip(_)
RStrip(s) ==
    IF s # <<>> /\ s[Len(s)] = "_" THEN RStrip(SubSeq(s, 1, Len(s) - 1)) ELSE s

\* str.strip("_")
StripUnderscores(s) == RStrip(LStrip(s))

_sanitize_ident_no_keyword_guard(name) ==
    LET s1 == StripUnderscores(IdentReSub(name))
        s2 == IF s1 = <<>> THEN <<"x">> ELSE s1
    IN  IF IsDigit(s2[1]) THEN <<"_">> \o s2 ELSE s2

_sanitize_ident(name) ==
    LET s1 == StripUnderscores(IdentReSub(name))
        s2 == IF s1 = <<>> THEN <<"x">> ELSE s1
        s3 == IF IsDigit(s2[1]) THEN <<"_">> \o s2 ELSE s2
    IN  IF IsKeyword(s3) THEN Append(s3, "_") ELSE s3

\* re.split(r"_+", base) without its empty parts
RECURSIVE SplitParts(_, _)
SplitParts(s, cur) ==
    IF s = <<>> THEN (IF cur = <<>> THEN <<>> ELSE <<cur>>)
    ELSE IF Head(s) = "_"
         THEN (IF cur = <<>> THEN <<>> ELSE <<cur>>) \o SplitParts(Tail(s), <<>>)
         ELSE SplitParts(Tail(s), Append(cur, Head(s)))

RECURSIVE JoinCapitalized(_)
JoinCapitalized(parts) ==
    IF parts = <<>> THEN <<>>
    ELSE LET p == Head(parts)
         IN  <<ToUpper(p[1])>> \o Tail(p) \o JoinCapitalized(Tail(parts))

_to_class_name(key) == JoinCapitalized(SplitParts(_sanitize_ident(key), <<>>))

_is_valid_identifier_keywords_pass(name) == name # <<>> /\ IsIdentifier(name)

_is_valid_identifier(name) ==
    name # <<>> /\ IsIdentifier(name) /\ ~IsKeyword(name)

(***************************************************************************)
(* Schema trees and dtype descriptors                                      *)
(*                                                                         *)
(* A SchemaTree is an insertion-ordered mapping: a sequence of entries     *)
(* with pairwise distinct keys.  An entry is a leaf (a dtype descriptor)   *)
(* or a nested SchemaTree (a struct column).                               *)
(***************************************************************************)
Scalar(n) == [name |-> n, inner |-> <<>>, shape |-> <<>>, fields |-> <<>>]

ListOf(dt) == [name |-> "List", inner |-> <<dt>>, shape |-> <<>>, fields |-> <<>>]

ArrayOf(dt, w) == [name |-> "Array", inner |-> <<dt>>, shape |-> <<w>>, fields |-> <<>>]

StructOf(fs) == [name |-> "Struct", inner |-> <<>>, shape |-> <<>>, fields |-> fs]

NoDtype == Scalar("")

Leaf(k, dt) == [k |-> k, struct |-> FALSE, sub |-> <<>>, dt |-> dt]

Nested(k, t) == [k |-> k, struct |-> TRUE, sub |-> t, dt |-> NoDtype]

\* the insertion-ordered dict of Python: d[k] = v
DictSet(d, k, v) ==
    IF \E i \in 1..Len(d) : d[i].k = k
    THEN [i \in 1..Len(d) |-> IF d[i].k = k THEN [k |-> k, v |-> v] ELSE d[i]]
    ELSE Append(d, [k |-> k, v |-> v])

DictGet(d, k) == d[CHOOSE i \in 1..Len(d) : d[i].k = k].v

(***************************************************************************)
(* Dtype rendering                                                         *)
(***************************************************************************)
_dtype_name(dt) == dt.name

_render_vcol_ctor_and_posargs(dt) ==
    LET name == _dtype_name(dt)
    IN  IF name = "List" THEN [head |-> <<"pg.vcol.List">>, pos |-> <<>>]
        ELSE IF name = "Array" THEN [head |-> <<"pg.vcol.Array">>, pos |-> <<>>]
        ELSE [head |-> <<"pg.vcol." \o name>>, pos |-> <<>>]

\* repr() of a str: single quotes unless the text holds one and no double
\* quote; backslash, the quote in use and line breaks are escaped.
RECURSIVE PyReprBody(_, _)
PyReprBody(s, q) ==
    IF s = <<>> THEN <<>>
    ELSE LET c == Head(s)
             e == IF c = "\\" THEN <<"\\", "\\">>
                  ELSE IF c = q THEN <<"\\", q>>
                  ELSE IF c = "\n" THEN <<"\\", "n">>
                  ELSE <<c>>
         IN  e \o PyReprBody(Tail(s), q)

PyRepr(s) ==
    LET q == IF "'" \in Range(s) /\ "\"" \notin Range(s) THEN "\"" ELSE "'"
    IN  <<q>> \o PyReprBody(s, q) \o <<q>>

\* str() of a tuple of integers: (3,) and (3, 2)
RECURSIVE PyTupleItems(_)
PyTupleItems(t) ==
    IF t = <<>> THEN <<>>
    ELSE IF Len(t) = 1 THEN IntToStr(t[1])
    ELSE IntToStr(t[1]) \o <<", ">> \o PyTupleItems(Tail(t))

PyTupleStr(t) ==
    <<"(">> \o PyTupleItems(t) \o (IF Len(t) = 1 THEN <<",">> ELSE <<>>) \o <<")">>

RECURSIVE _render_pl_dtype_expr(_)
RECURSIVE RenderFields(_)
RenderFields(fs) ==
    IF fs = <<>> THEN <<>>
    ELSE <<"pl.Field(">> \o PyRepr(fs[1].name) \o <<", ">>
             \o _render_pl_dtype_expr(fs[1].dtype) \o <<")">>
             \o (IF Len(fs) > 1 THEN <<", ">> ELSE <<>>)
             \o RenderFields(Tail(fs))

_render_pl_dtype_expr(dt) ==
    LET name == _dtype_name(dt)
    IN  IF name = "List"
        THEN <<"pl.List(">> \o _render_pl_dtype_expr(dt.inner[1]) \o <<")">>
        ELSE IF name = "Array"
        THEN <<"pl.Array(">> \o _render_pl_dtype_expr(dt.inner[1]) \o <<", ">>
                 \o PyTupleStr(dt.shape) \o <<")">>
        ELSE IF name = "Struct"
        THEN <<"pl.Struct([">> \o RenderFields(dt.fields) \o <<"])">>
        ELSE <<"pl." \o name>>

(***************************************************************************)
(* State of one call of collect_model_blueprint                            *)
(***************************************************************************)
VARIABLES
    data,               \* the caller's input: [mapping, items]
    root_class_name,    \* option: the root display name of a bare input
    include_dtypes,     \* option: "False", "True" or "as_values"
    allow_nulls,        \* option: "True", "False" or "None"
    path,               \* option: [given, parts], the destination
    print_usage_suggestion,
    pc,                 \* the position of the call
    schemas_by_root,    \* the normalized roots, an insertion-ordered dict
    multi_roots,
    header,
    emitted,            \* the class blocks, in emission order
    used_class_names,
    actual_root_names,
    blueprint,          \* the text built by _schemas_to_module
    result,             \* the returned text: [header, all_line, blocks]
    error,              \* the exception raised: [kind, paths]
    disk,               \* the file system: what is at each path
    disk0,              \* the file system when the call began
    printed,            \* the usage suggestion printed by the call
    calls               \* the earlier calls of the process and their outcomes

vars == <<data, root_class_name, include_dtypes, allow_nulls, path,
          print_usage_suggestion, pc, schemas_by_root, multi_roots, header, emitted,
          used_class_names, actual_root_names, blueprint, result, error, disk, disk0,
          printed, calls>>

\* the arguments of the call
args == <<data, root_class_name, include_dtypes, allow_nulls, path,
          print_usage_suggestion>>

(***************************************************************************)
(* Name resolver                                                           *)
(***************************************************************************)
\* the while loop of _reserve_class_name and _reserve_attr_name
RECURSIVE FirstFree(_, _, _, _)
FirstFree(seen, base, sep, i) ==
    LET cand == base \o sep \o IntToStr(i)
    IN  IF cand \notin seen THEN cand ELSE FirstFree(seen, base, sep, i + 1)

_reserve_class_name_no_dedupe(seen, base) ==
    [name |-> base, seen |-> seen \cup {base}]

_reserve_class_name_from_3(seen, base) ==
    IF base \notin seen
    THEN [name |-> base, seen |-> seen \cup {base}]
    ELSE LET cand == FirstFree(seen, base, <<>>, 3)
         IN  [name |-> cand, seen |-> seen \cup {cand}]

_reserve_class_name(seen, base) ==
    IF base \notin seen
    THEN [name |-> base, seen |-> seen \cup {base}]
    ELSE LET cand == FirstFree(seen, base, <<>>, 2)
         IN  [name |-> cand, seen |-> seen \cup {cand}]

_reserve_attr_name_from_1(seen, original_key) ==
    LET base == _sanitize_ident(original_key)
    IN  IF base \notin seen
        THEN [name |-> base, seen |-> seen \cup {base}]
        ELSE LET cand == FirstFree(seen, base, <<"_">>, 1)
             IN  [name |-> cand, seen |-> seen \cup {cand}]

_reserve_attr_name(seen, original_key) ==
    LET base == _sanitize_ident(original_key)
    IN  IF base \notin seen
        THEN [name |-> base, seen |-> seen \cup {base}]
        ELSE LET cand == FirstFree(seen, base, <<"_">>, 2)
             IN  [name |-> cand, seen |-> seen \cup {cand}]

(***************************************************************************)
(* Field lines of a class body                                             *)
(***************************************************************************)
NameKw_if_sanitized(attr, original_key) ==
    IF _sanitize_ident(original_key) = original_key
    THEN <<>>
    ELSE <<[kw |-> "name", val |-> <<"\"">> \o original_key \o <<"\"">>]>>

\* name_kw of build_class: the original-name argument
NameKw(attr, original_key) ==
    IF attr = original_key
    THEN <<>>
    ELSE <<[kw |-> "name", val |-> <<"\"">> \o original_key \o <<"\"">>]>>

AllowKw_also_for_None == <<[kw |-> "allow_nulls", val |-> <<allow_nulls>>]>>

\* allow_kw of build_class: the nullability argument
AllowKw ==
    IF allow_nulls = "None"
    THEN <<>>
    ELSE <<[kw |-> "allow_nulls", val |-> <<allow_nulls>>]>>

DtypeKw(value) == <<[kw |-> "dtype", val |-> _render_pl_dtype_expr(value)]>>

\* the call on the right of "attr = ": its head and its arguments
LeafCall(value, name_kw, allow_kw) ==
    IF include_dtypes = "True"
    THEN LET hp == _render_vcol_ctor_and_posargs(value)
         IN  [head |-> hp.head, args |-> hp.pos \o name_kw \o allow_kw]
    ELSE IF include_dtypes = "as_values"
    THEN IF _dtype_name(value) \in {"List", "Array"}
         THEN [head |-> _render_vcol_ctor_and_posargs(value).head,
               args |-> DtypeKw(value) \o name_kw \o allow_kw]
         ELSE [head |-> <<"pg.vcol">>,
               args |-> DtypeKw(value) \o name_kw \o allow_kw]
    ELSE IF _dtype_name(value) \in {"List", "Array"}
         THEN [head |-> _render_vcol_ctor_and_posargs(value).head,
               args |-> name_kw \o allow_kw]
         ELSE [head |-> <<"pg.vcol">>, args |-> name_kw \o allow_kw]

\* "    {attr}: {child_cls}"
StructLine(attr, child_cls) ==
    [kind |-> "struct", attr |-> attr, head |-> child_cls, args |-> <<>>]

\* "    {attr} = {call}"
LeafLine(attr, call) ==
    [kind |-> "leaf", attr |-> attr, head |-> call.head, args |-> call.args]

\* "    pass"
PassLine == [kind |-> "pass", attr |-> <<>>, head |-> <<>>, args |-> <<>>]

RECURSIVE FieldLines_drops_colliding_key(_, _, _)
FieldLines_drops_colliding_key(tree, child_class_for_key, used_attrs) ==
    IF tree = <<>> THEN <<>>
    ELSE LET e == Head(tree)
             r == _reserve_attr_name(used_attrs, e.k)
             line == IF e.struct
                     THEN StructLine(r.name, DictGet(child_class_for_key, e.k))
                     ELSE LeafLine(r.name,
                                   LeafCall(e.dt, NameKw(r.name, e.k), AllowKw))
         IN  (IF _sanitize_ident(e.k) \in used_attrs THEN <<>> ELSE <<line>>)
                 \o FieldLines_drops_colliding_key(Tail(tree), child_class_for_key, r.seen)

\* the loop over tree.items() that writes one line per key
RECURSIVE FieldLines(_, _, _)
FieldLines(tree, child_class_for_key, used_attrs) ==
    IF tree = <<>> THEN <<>>
    ELSE LET e == Head(tree)
             r == _reserve_attr_name(used_attrs, e.k)
             line == IF e.struct
                     THEN StructLine(r.name, DictGet(child_class_for_key, e.k))
                     ELSE LeafLine(r.name,
                                   LeafCall(e.dt, NameKw(r.name, e.k), AllowKw))
         IN  <<line>> \o FieldLines(Tail(tree), child_class_for_key, r.seen)

ClassBlock_without_pass(cls_name, tree, child_class_for_key) ==
    [cls |-> cls_name, lines |-> FieldLines(tree, child_class_for_key, {})]

\* the text block of one class
ClassBlock(cls_name, tree, child_class_for_key) ==
    IF tree = <<>>
    THEN [cls |-> cls_name, lines |-> <<PassLine>>]
    ELSE [cls |-> cls_name, lines |-> FieldLines(tree, child_class_for_key, {})]

EmitBlock_in_front(blocks, block) == <<block>> \o blocks

\* emitted.append(...)
EmitBlock(blocks, block) == Append(blocks, block)

ChildSuggested_no_root(k, root_name) == _to_class_name(k)

\* the suggested class name of a nested struct
ChildSuggested(k, root_name) ==
    IF multi_roots THEN _to_class_name(k) \o root_name ELSE _to_class_name(k)

(***************************************************************************)
(* build_class: returns the actual class name and the new used-name set    *)
(* and list of emitted blocks.                                             *)
(***************************************************************************)
RECURSIVE build_class(_, _, _, _)
RECURSIVE BuildChildren(_, _, _)
BuildChildren(tree, root_name, st) ==
    IF tree = <<>> THEN st
    ELSE LET e == Head(tree)
         IN  IF e.struct
             THEN LET c == build_class(e.sub, ChildSuggested(e.k, root_name), root_name,
                                       [used |-> st.used, emitted |-> st.emitted])
                  IN  BuildChildren(Tail(tree), root_name,
                                    [used |-> c.used, emitted |-> c.emitted,
                                     child_class_for_key |->
                                         DictSet(st.child_class_for_key, e.k, c.name)])
             ELSE BuildChildren(Tail(tree), root_name, st)

build_class(tree, suggested_name, root_name, st) ==
    LET base == _to_class_name(suggested_name)
        r == _reserve_class_name(st.used, base)
        ch == BuildChildren(tree, root_name,
                            [used |-> r.seen, emitted |-> st.emitted,
                             child_class_for_key |-> <<>>])
    IN  [name |-> r.name,
         used |-> ch.used,
         emitted |-> EmitBlock(ch.emitted,
                               ClassBlock(r.name, tree, ch.child_class_for_key))]

(***************************************************************************)
(* Identifier validator                                                    *)
(***************************************************************************)
\* ".".join(parts)
RECURSIVE JoinDots(_)
JoinDots(parts) ==
    IF parts = <<>> THEN <<>>
    ELSE IF Len(parts) = 1 THEN parts[1]
    ELSE parts[1] \o <<".">> \o JoinDots(Tail(parts))

\* walk: the offending dotted paths of a tree, in visiting order
RECURSIVE walk(_, _)
walk(tree, trail) ==
    IF tree = <<>> THEN <<>>
    ELSE LET e == Head(tree)
         IN  (IF e.struct
              THEN (IF ~_is_valid_identifier(e.k)
                    THEN <<JoinDots(Append(trail, e.k))>> ELSE <<>>)
                   \o walk(e.sub, Append(trail, e.k))
              ELSE <<>>)
             \o walk(Tail(tree), trail)

\* list(dict.fromkeys(bad))
RECURSIVE Uniq(_, _)
Uniq(l, seen) ==
    IF l = <<>> THEN <<>>
    ELSE IF Head(l) \in seen THEN Uniq(Tail(l), seen)
    ELSE <<Head(l)>> \o Uniq(Tail(l), seen \cup {Head(l)})

\* the paths named in the ValueError; none when the schema passes
ensure_nested_keys_are_identifiers(schema) == Uniq(walk(schema, <<>>), {})

(***************************************************************************)
(* The destination path                                                    *)
(*                                                                         *)
(* A path is the sequence of its parts, relative to the working            *)
(* directory, which is <<>>.  The file system holds, at every path, a      *)
(* directory, a file with its text, or nothing.                            *)
(***************************************************************************)
\* Path.name
PathName(p) == IF p = <<>> THEN <<>> ELSE p[Len(p)]

\* str.rfind("."), counted from 1; 0 when there is none
LastDot(name) ==
    IF \E i \in 1..Len(name) : name[i] = "."
    THEN CHOOSE i \in 1..Len(name) :
             name[i] = "." /\ \A j \in (i + 1)..Len(name) : name[j] # "."
    ELSE 0

\* Path.suffix: from the last dot of the name on, unless the dot is the
\* first or the last character of the name
PathSuffix(p) ==
    LET name == PathName(p)
        i == LastDot(name)
    IN  IF 1 < i /\ i < Len(name) THEN SubSeq(name, i, Len(name)) ELSE <<>>

\* Path.parent
PathParent(p) == IF p = <<>> THEN <<>> ELSE SubSeq(p, 1, Len(p) - 1)

\* Path.with_suffix("")
PathWithoutSuffix(p) ==
    IF PathSuffix(p) = <<>> THEN p
    ELSE Append(PathParent(p),
                SubSeq(PathName(p), 1, Len(PathName(p)) - Len(PathSuffix(p))))

PathExists(p) == disk[p].kind # "absent"

PathIsDir_of_anything(p) == TRUE

PathIsDir(p) == disk[p].kind = "dir"

\* Path.write_text
WriteText(p, text) == [disk EXCEPT ![p] = [kind |-> "file", text |-> text]]

\* ", ".join(names)
RECURSIVE JoinCommas(_)
JoinCommas(names) ==
    IF names = <<>> THEN <<>>
    ELSE names[1] \o (IF Len(names) > 1 THEN <<", ">> ELSE <<>>)
             \o JoinCommas(Tail(names))

\* the usage suggestion printed before the file is written
UsageSuggestion(p, model_class_names) ==
    LET parts == JoinDots(PathWithoutSuffix(p))
    IN  [heading |-> <<"# ------- Suggested usage for models ">>
                         \o JoinCommas(model_class_names),
         import_line |-> (IF parts # <<>>
                          THEN <<"from ">> \o parts \o <<" import ">>
                          ELSE <<"import ">>)
                             \o JoinCommas(model_class_names)]

(***************************************************************************)
(* The calls explored                                                      *)
(***************************************************************************)
MaxDepth == 2        \* nesting depth of the struct-only trees
MaxRoots == 2        \* entries of a mapping input
MaxLeafFields == 2   \* fields of a tree over the wide key pools
MaxSiblings == 4     \* fields of a tree over the colliding keys
MaxCalls == 3        \* calls made one after the other by one process
MaxInterleaved == 3  \* fields of a tree of leaves and structs in any order

K_address == <<"a", "d", "d", "r", "e", "s", "s">>
K_Address == <<"A", "d", "d", "r", "e", "s", "s">>
K_address2 == <<"a", "d", "d", "r", "e", "s", "s", "2">>
K_customers == <<"c", "u", "s", "t", "o", "m", "e", "r", "s">>
K_suppliers == <<"s", "u", "p", "p", "l", "i", "e", "r", "s">>
K_Customers == <<"C", "u", "s", "t", "o", "m", "e", "r", "s">>
K_address_customers ==
    <<"a", "d", "d", "r", "e", "s", "s", "_", "c", "u", "s", "t", "o", "m", "e", "r", "s">>
K_DatasetModel == <<"D", "a", "t", "a", "s", "e", "t", "M", "o", "d", "e", "l">>
K_id == <<"i", "d">>
K_a_space_b == <<"a", " ", "b">>
K_a_b == <<"a", "_", "b">>
K_if == <<"i", "f">>
K_none == <<"n", "o", "n", "e">>
K_1st == <<"1", "s", "t">>
K_out == <<"o", "u", "t">>
K_missing == <<"m", "i", "s", "s", "i", "n", "g">>
K_readme == <<"r", "e", "a", "d", "m", "e">>
K_models_py == <<"m", "o", "d", "e", "l", "s", ".", "p", "y">>
K_models_txt == <<"m", "o", "d", "e", "l", "s", ".", "t", "x", "t">>
K_dot_py == <<".", "p", "y">>

Int64 == Scalar("Int64")

\* the sequences of at most n entries of S with pairwise distinct keys
TreesOver(S, n) ==
    UNION { { t \in [1..m -> S] : \A i, j \in 1..m : i # j => t[i].k # t[j].k }
            : m \in 0..n }

\* struct columns only, nested to a depth of at most d; at most one field
\* of a struct nests further
NestKeys == {K_address, K_Address}

RECURSIVE NestTrees(_)
NestTrees(d) ==
    IF d = 0 THEN {<<>>}
    ELSE { t \in TreesOver({Nested(k, u) : k \in NestKeys, u \in NestTrees(d - 1)},
                           Cardinality(NestKeys)) :
             Cardinality({i \in 1..Len(t) : t[i].sub # <<>>}) <= 1 }

K_quoted_pl_x == <<"\"", "+", "p", "l", ".", "x", "+", "\"">>

\* leaf keys of every kind: clean, changed by sanitizing, colliding once
\* sanitized, empty, digit first, keywords, quote, backslash, line break,
\* an expression between quotes
LeafKeys ==
    { K_id, K_a_space_b, K_a_b, <<>>, <<"x">>, <<"-">>, K_1st, K_if,
      <<"i", "f", "_">>, <<"q", "\"", "t">>, <<"b", "\\", "n">>,
      <<"l", "\n", "f">>, <<"é">>, <<"_", "i", "d">>, K_quoted_pl_x }

\* keys that sanitize to a and to a_2
SiblingKeys ==
    { <<"a">>, <<"a", "-">>, <<"-", "a">>, <<"a", "_", "2">>, <<"a", "_", "2", "-">> }

\* struct keys, legal and not, beside leaves
MixedEntries ==
    { Leaf(K_id, Int64), Leaf(K_a_space_b, Int64),
      Nested(K_address, <<Leaf(K_id, Int64)>>) }
    \cup { Nested(k, <<>>) :
             k \in { K_Address, K_address2, K_a_b, K_none, <<"_", "1">>,
                     <<"_">>, <<"é">>, K_if, <<>> } }

DTypes ==
    { Int64, Scalar("Utf8"), ListOf(Int64), ArrayOf(Scalar("Utf8"), 3),
      ListOf(StructOf(<< [name |-> K_id, dtype |-> Int64],
                         [name |-> K_a_space_b, dtype |-> ListOf(Scalar("Utf8"))] >>)) }

\* one leaf of every dtype, under a clean key, under a key that sanitizing
\* changes, and under a clean key that collides with an earlier sibling
DtypeTrees ==
    { <<Leaf(k, dt)>> : k \in {K_id, K_a_space_b}, dt \in DTypes }
    \cup { <<Leaf(K_a_space_b, Int64), Leaf(K_a_b, dt)>> : dt \in DTypes }

\* the trees of the entries of a mapping input
RootTrees ==
    { <<Nested(K_address, <<>>)>>,
      <<Nested(K_Address, <<>>), Nested(K_address, <<>>)>>,
      <<Leaf(K_id, Int64), Nested(K_address, <<Leaf(K_a_space_b, Int64)>>)>>,
      <<Nested(K_if, <<>>)>>,
      <<Nested(K_a_space_b, <<Nested(<<>>, <<>>), Nested(K_id, <<>>)>>)>> }

RootKeys == {K_customers, K_suppliers, K_Customers, K_address_customers}

\* the mappings of at most n entries with pairwise distinct keys
MappingsOver(n) ==
    UNION { { s \in [1..m -> [k : RootKeys, v : RootTrees]] :
                \A i, j \in 1..m : i # j => s[i].k # s[j].k }
            : m \in 1..n }

BareRootNames == {K_DatasetModel, K_address, K_none, K_1st}

IncludeDtypes == {"False", "True", "as_values"}

AllowNulls == {"True", "False", "None"}

Bare(t) == [mapping |-> FALSE, items |-> <<[k |-> <<>>, v |-> t]>>]

MappingOf(items) == [mapping |-> TRUE, items |-> items]

\* the destinations tried: good, wrong suffix, parent missing, both, parent
\* a file, a name that is only a suffix, the empty path
DestPaths ==
    { <<K_out, K_models_py>>, <<K_models_py>>, <<K_out, K_models_txt>>,
      <<K_missing, K_models_py>>, <<K_missing, K_models_txt>>,
      <<K_readme, K_models_py>>, <<K_out, K_dot_py>>, <<>> }

DiskPaths == DestPaths \cup {PathParent(p) : p \in DestPaths}

NoText == [header |-> <<>>, all_line |-> <<>>, blocks |-> <<>>]

OldText == [header |-> <<"# written before the call">>, all_line |-> <<>>, blocks |-> <<>>]

Absent == [kind |-> "absent", text |-> NoText]

Directory == [kind |-> "dir", text |-> NoText]

File(text) == [kind |-> "file", text |-> text]

\* a working directory that holds the directory out and the file readme
BaseDisk ==
    [p \in DiskPaths |->
        IF p \in {<<>>, <<K_out>>} THEN Directory
        ELSE IF p = <<K_readme>> THEN File(OldText)
        ELSE Absent]

\* the file systems a call to destination p starts from: the destination
\* is absent, a file or a directory
DisksFor(p) ==
    {BaseDisk}
    \cup (IF p # <<>> /\ BaseDisk[PathParent(p)] = Directory
          THEN {[BaseDisk EXCEPT ![p] = e] : e \in {File(OldText), Directory}}
          ELSE {})

NoPath == [given |-> FALSE, parts |-> <<>>]

PathTo(p) == [given |-> TRUE, parts |-> p]

\* the inputs of the calls in file mode: a schema that compiles, one that
\* does not, and two roots of which one takes the name of the other's struct
FileData ==
    { Bare(<<Leaf(K_id, Int64), Nested(K_address, <<>>)>>),
      Bare(<<Nested(K_if, <<>>)>>),
      MappingOf(<<[k |-> K_customers, v |-> <<Nested(K_address, <<>>)>>],
                  [k |-> K_address_customers, v |-> <<Nested(K_address, <<>>)>>]>>) }

\* the arguments of the call
Args(d, r, i, a) ==
    /\ data = d
    /\ root_class_name = r
    /\ include_dtypes = i
    /\ allow_nulls = a

\* path is None
TextMode ==
    /\ path = NoPath
    /\ print_usage_suggestion = TRUE
    /\ disk = BaseDisk

FileCalls ==
    \E d \in FileData, p \in DestPaths, u \in BOOLEAN :
        \E f \in DisksFor(p) :
            /\ Args(d, K_DatasetModel, "False", "False")
            /\ path = PathTo(p)
            /\ print_usage_suggestion = u
            /\ disk = f

NestCalls ==
    \E t \in NestTrees(MaxDepth), r \in BareRootNames :
        Args(Bare(t), r, "False", "False")

MixedCalls ==
    \E t \in TreesOver(MixedEntries, MaxLeafFields), r \in {K_DatasetModel, K_address} :
        Args(Bare(t), r, "False", "False")

\* leaves and structs in every order, two of the keys sanitizing to a_b
InterleavedEntries ==
    { Leaf(K_a_space_b, Int64), Leaf(K_a_b, Int64),
      Nested(K_address, <<Leaf(K_id, Int64)>>), Nested(K_id, <<>>) }

InterleavedCalls ==
    \E t \in TreesOver(InterleavedEntries, MaxInterleaved) :
        Args(Bare(t), K_DatasetModel, "False", "False")

MappingCalls ==
    \E items \in MappingsOver(MaxRoots) :
        Args(MappingOf(items), K_DatasetModel, "False", "False")

LeafCalls ==
    \E t \in TreesOver({Leaf(k, Int64) : k \in LeafKeys}, MaxLeafFields) :
        Args(Bare(t), K_DatasetModel, "False", "False")

SiblingCalls ==
    \E t \in TreesOver({Leaf(k, Int64) : k \in SiblingKeys}, MaxSiblings) :
        Args(Bare(t), K_DatasetModel, "False", "False")

DtypeCalls ==
    \E t \in DtypeTrees, i \in IncludeDtypes, a \in AllowNulls :
        Args(Bare(t), K_DatasetModel, i, a)

(***************************************************************************)
(* The call, step by step                                                  *)
(***************************************************************************)
NoError == [kind |-> "", paths |-> <<>>]

NoPrint == [heading |-> <<>>, import_line |-> <<>>]

\* the process has made no call yet, and the call is at its first line
FirstCall ==
    /\ pc = "normalize"
    /\ schemas_by_root = <<>>
    /\ multi_roots = FALSE
    /\ header = <<>>
    /\ emitted = <<>>
    /\ used_class_names = {}
    /\ actual_root_names = <<>>
    /\ blueprint = NoText
    /\ result = NoText
    /\ error = NoError
    /\ disk0 = disk
    /\ printed = NoPrint
    /\ calls = <<>>

Init ==
    /\ \/ /\ \/ NestCalls
             \/ MixedCalls
             \/ MappingCalls
             \/ LeafCalls
             \/ SiblingCalls
             \/ DtypeCalls
             \/ InterleavedCalls
          /\ TextMode
       \/ FileCalls
    /\ FirstCall

\* the loop that fills schemas_by_root from the items of a mapping
RECURSIVE NormalizeItems(_, _)
NormalizeItems(items, acc) ==
    IF items = <<>> THEN acc
    ELSE NormalizeItems(Tail(items),
                        DictSet(acc, _to_class_name(Head(items).k), Head(items).v))

MultiRoots_of_every_mapping(items) == Len(items) >= 1

\* multi_roots = len(items) > 1
MultiRoots(items) == Len(items) > 1

\* collect_model_blueprint, up to the call of _schemas_to_module
Normalize ==
    /\ pc = "normalize"
    /\ IF data.mapping
       THEN /\ multi_roots' = MultiRoots(data.items)
            /\ schemas_by_root' = NormalizeItems(data.items, <<>>)
       ELSE /\ multi_roots' = FALSE
            /\ schemas_by_root' =
                   <<[k |-> _to_class_name(root_class_name), v |-> data.items[1].v]>>
    /\ pc' = "validate"
    /\ UNCHANGED <<args, disk, disk0, printed, calls, header, emitted,
                   used_class_names, actual_root_names, blueprint, result, error>>

\* the roots, in order, whose schema has an offending key
FailingRoots ==
    { i \in 1..Len(schemas_by_root) :
        ensure_nested_keys_are_identifiers(schemas_by_root[i].v) # <<>> }

\* _schemas_to_module: the validation of every root; the first root that
\* fails raises
Validate ==
    /\ pc = "validate"
    /\ IF FailingRoots # {}
       THEN LET i == CHOOSE m \in FailingRoots : \A n \in FailingRoots : m <= n
            IN  /\ error' = [kind |-> "ValueError",
                             paths |-> ensure_nested_keys_are_identifiers(
                                           schemas_by_root[i].v)]
                /\ pc' = "error"
       ELSE /\ error' = error
            /\ pc' = "header"
    /\ UNCHANGED <<args, disk, disk0, printed, calls, schemas_by_root,
                   multi_roots, header, emitted, used_class_names, actual_root_names,
                   blueprint, result>>

UsedClassNamesOfEarlierCalls == used_class_names

\* used_class_names: set[str] = set()
NewUsedClassNames == {}

\* _schemas_to_module: the import header and the empty per-call state
EmitHeader ==
    /\ pc = "header"
    /\ header' = <<"import paguro as pg", "from paguro.models import vfm">>
                    \o (IF include_dtypes = "as_values"
                        THEN <<"import polars as pl">> ELSE <<>>)
                    \o <<"">>
    /\ emitted' = <<>>
    /\ used_class_names' = NewUsedClassNames
    /\ actual_root_names' = <<>>
    /\ pc' = "build"
    /\ UNCHANGED <<args, disk, disk0, printed, calls, schemas_by_root,
                   multi_roots, blueprint, result, error>>

\* _schemas_to_module: one round of the loop over the roots
BuildRoot ==
    /\ pc = "build"
    /\ Len(actual_root_names) < Len(schemas_by_root)
    /\ LET root == schemas_by_root[Len(actual_root_names) + 1]
           root_name == _to_class_name(root.k)
           b == build_class(root.v, root_name, root_name,
                            [used |-> used_class_names, emitted |-> emitted])
       IN  /\ used_class_names' = b.used
           /\ emitted' = b.emitted
           /\ actual_root_names' = Append(actual_root_names, b.name)
    /\ UNCHANGED <<args, disk, disk0, printed, calls, pc,
                   schemas_by_root, multi_roots, header, blueprint, result, error>>

\* ", ".join(repr(n) for n in names)
RECURSIVE JoinReprs(_)
JoinReprs(names) ==
    IF names = <<>> THEN <<>>
    ELSE PyRepr(names[1]) \o (IF Len(names) > 1 THEN <<", ">> ELSE <<>>)
             \o JoinReprs(Tail(names))

\* _schemas_to_module: the export line and the joined text
Assemble ==
    /\ pc = "build"
    /\ Len(actual_root_names) = Len(schemas_by_root)
    /\ blueprint' = [header |-> header,
                     all_line |-> <<"__all__ = [">> \o JoinReprs(actual_root_names)
                                     \o <<"]">>,
                     blocks |-> emitted]
    /\ pc' = "return"
    /\ UNCHANGED <<args, disk, disk0, printed, calls, schemas_by_root,
                   multi_roots, header, emitted, used_class_names, actual_root_names,
                   result, error>>

\* collect_model_blueprint: with no path the text is returned
Return ==
    /\ pc = "return"
    /\ ~path.given
    /\ result' = blueprint
    /\ pc' = "done"
    /\ UNCHANGED <<args, disk, disk0, printed, calls, schemas_by_root,
                   multi_roots, header, emitted, used_class_names, actual_root_names,
                   blueprint, error>>

\* root_names = list(schemas_by_root.keys())
RootNames == [i \in 1..Len(schemas_by_root) |-> schemas_by_root[i].k]

RaiseAtDestination_after_write(kind) ==
    /\ error' = [kind |-> kind, paths |-> <<>>]
    /\ pc' = "path_error"
    /\ disk' = [disk EXCEPT ![path.parts] = [kind |-> "file", text |-> blueprint]]
    /\ UNCHANGED printed

RaiseAtDestination(kind) ==
    /\ error' = [kind |-> kind, paths |-> <<>>]
    /\ pc' = "path_error"
    /\ UNCHANGED <<disk, printed>>

\* _write_model_blueprint_to_python_file: the three checks of the
\* destination, the usage suggestion and the write; None is returned
WriteFile ==
    /\ pc = "return"
    /\ path.given
    /\ LET p == path.parts
       IN  IF PathSuffix(p) # K_dot_py
           THEN RaiseAtDestination("ValueError")
           ELSE IF ~PathExists(PathParent(p)) \/ ~PathIsDir(PathParent(p))
           THEN RaiseAtDestination("FileNotFoundError")
           ELSE IF PathExists(p)
           THEN RaiseAtDestination("FileExistsError")
           ELSE /\ printed' = IF print_usage_suggestion
                              THEN UsageSuggestion(p, RootNames)
                              ELSE printed
                /\ disk' = WriteText(p, blueprint)
                /\ pc' = "written"
                /\ error' = error
    /\ UNCHANGED <<args, disk0, calls, schemas_by_root, multi_roots, header, emitted,
                   used_class_names, actual_root_names, blueprint, result>>

Next == Normalize \/ Validate \/ EmitHeader \/ BuildRoot \/ Assemble \/ Return \/ WriteFile

Spec == Init /\ [][Next]_vars

(***************************************************************************)
(* One process that calls again and again                                  *)
(***************************************************************************)
CallArgs(d, r, i, a, p, u) ==
    [data |-> d, root_class_name |-> r, include_dtypes |-> i, allow_nulls |-> a,
     path |-> p, print_usage_suggestion |-> u]

T_address_Address == <<Nested(K_address, <<Nested(K_Address, <<>>)>>)>>

T_leaves == <<Leaf(K_a_space_b, ListOf(Int64)), Leaf(K_a_b, Int64)>>

\* the calls of the process: a bare schema and the same schema as the only
\* entry of a mapping, with schemas that compile and one that does not, a
\* mapping of two roots, and a call in file mode
RepeatedCalls ==
    { CallArgs(Bare(T_address_Address), K_address, "False", "False", NoPath, TRUE),
      CallArgs(MappingOf(<<[k |-> K_address, v |-> T_address_Address]>>),
               K_DatasetModel, "False", "False", NoPath, TRUE),
      CallArgs(Bare(<<Nested(K_if, <<>>)>>), K_customers, "False", "False", NoPath, TRUE),
      CallArgs(MappingOf(<<[k |-> K_customers, v |-> <<Nested(K_if, <<>>)>>]>>),
               K_DatasetModel, "False", "False", NoPath, TRUE),
      CallArgs(Bare(T_leaves), K_1st, "as_values", "None", NoPath, TRUE),
      CallArgs(MappingOf(<<[k |-> K_1st, v |-> T_leaves]>>),
               K_address, "as_values", "None", NoPath, TRUE),
      CallArgs(MappingOf(<<[k |-> K_customers, v |-> T_address_Address],
                           [k |-> K_suppliers, v |-> T_address_Address]>>),
               K_DatasetModel, "False", "False", NoPath, TRUE),
      CallArgs(Bare(T_address_Address), K_address, "False", "False",
               PathTo(<<K_out, K_models_py>>), TRUE) }

InitCalls ==
    /\ \E c \in RepeatedCalls :
          /\ Args(c.data, c.root_class_name, c.include_dtypes, c.allow_nulls)
          /\ path = c.path
          /\ print_usage_suggestion = c.print_usage_suggestion
    /\ disk = BaseDisk
    /\ FirstCall

Ended == pc \in {"done", "written", "error", "path_error"}

\* what the caller gave and what it got back
ThisCall ==
    [args |-> CallArgs(data, root_class_name, include_dtypes, allow_nulls, path,
                       print_usage_suggestion),
     disk0 |-> disk0, pc |-> pc, result |-> result, error |-> error, disk |-> disk,
     printed |-> printed]

\* the caller calls again: the locals of the call that ended are out of
\* reach, and the file system is as that call left it
CallAgain ==
    /\ Ended
    /\ Len(calls) < MaxCalls - 1
    /\ calls' = Append(calls, ThisCall)
    /\ \E c \in RepeatedCalls :
          /\ data' = c.data
          /\ root_class_name' = c.root_class_name
          /\ include_dtypes' = c.include_dtypes
          /\ allow_nulls' = c.allow_nulls
          /\ path' = c.path
          /\ print_usage_suggestion' = c.print_usage_suggestion
    /\ pc' = "normalize"
    /\ result' = NoText
    /\ error' = NoError
    /\ printed' = NoPrint
    /\ disk0' = disk
    /\ UNCHANGED <<disk, schemas_by_root, multi_roots, header, emitted,
                   used_class_names, actual_root_names, blueprint>>

NextCalls ==
    \/ Normalize \/ Validate \/ EmitHeader \/ BuildRoot \/ Assemble \/ Return
    \/ WriteFile \/ CallAgain

SpecCalls == InitCalls /\ [][NextCalls]_vars

(***************************************************************************)
(* Vocabulary of the properties                                            *)
(***************************************************************************)
\* the struct nodes of a tree, children before their parent
RECURSIVE NodesPostOrder(_)
RECURSIVE ChildNodes(_)
ChildNodes(tree) ==
    IF tree = <<>> THEN <<>>
    ELSE (IF Head(tree).struct THEN NodesPostOrder(Head(tree).sub) ELSE <<>>)
             \o ChildNodes(Tail(tree))

NodesPostOrder(tree) == Append(ChildNodes(tree), tree)

\* the struct nodes of the first n roots of the call
RECURSIVE NodesOfRoots(_)
NodesOfRoots(n) ==
    IF n = 0 THEN <<>>
    ELSE NodesOfRoots(n - 1) \o NodesPostOrder(schemas_by_root[n].v)

Built == pc \in {"return", "done"}

ClassNames == {emitted[i].cls : i \in 1..Len(emitted)}

\* a legal identifier of the host language, written in ASCII
LegalName(s) ==
    /\ s # <<>>
    /\ s[1] \in AsciiLetters \cup {"_"}
    /\ \A i \in 1..Len(s) : s[i] \in WordChars
    /\ s \notin Keywords

\* some key of a nested struct, at any depth, is not a legal identifier
RECURSIVE HasOffendingStructKey(_)
HasOffendingStructKey(tree) ==
    \E i \in 1..Len(tree) :
        /\ tree[i].struct
        /\ \/ tree[i].k = <<>>
           \/ ~IsIdentifier(tree[i].k)
           \/ tree[i].k \in Keywords
           \/ HasOffendingStructKey(tree[i].sub)

\* the offending dotted paths of a tree
RECURSIVE OffendingPaths(_, _)
OffendingPaths(tree, prefix) ==
    UNION { IF tree[i].struct
            THEN (IF tree[i].k = <<>> \/ ~IsIdentifier(tree[i].k) \/ tree[i].k \in Keywords
                  THEN {prefix \o tree[i].k} ELSE {})
                 \cup OffendingPaths(tree[i].sub, prefix \o tree[i].k \o <<".">>)
            ELSE {}
            : i \in 1..Len(tree) }

(***************************************************************************)
(* C1: within one call no two struct nodes, roots included, get the same   *)
(* class name: the class names reserved are as many as the struct nodes    *)
(* built, and every block carries its own name.                            *)
(***************************************************************************)
C1_ClassNamesUnique ==
    /\ \A i, j \in 1..Len(emitted) : i # j => emitted[i].cls # emitted[j].cls
    /\ pc \in {"build", "return", "done"} =>
          /\ Len(emitted) = Len(NodesOfRoots(Len(actual_root_names)))
          /\ Cardinality(used_class_names) = Len(emitted)
          /\ used_class_names = ClassNames

\* three structs asked for the same name in one finished call
C1_Witness ==
    /\ pc = "done"
    /\ {K_Address, Append(K_Address, "2"), Append(K_Address, "3")} \subseteq ClassNames

(***************************************************************************)
(* C2: in the emitted blocks, the block of a nested struct's class comes   *)
(* strictly before the block of the parent whose annotation line names     *)
(* it, for every struct field of every node of every root.                 *)
(***************************************************************************)
C2_ChildrenBeforeParents ==
    /\ \A i \in 1..Len(emitted) :
          \A l \in 1..Len(emitted[i].lines) :
              emitted[i].lines[l].kind = "struct" =>
                  \E j \in 1..(i - 1) : emitted[j].cls = emitted[i].lines[l].head
    /\ pc \in {"build", "return", "done"} =>
          LET nodes == NodesOfRoots(Len(actual_root_names))
          IN  /\ Len(emitted) = Len(nodes)
              /\ \A i \in 1..Len(nodes) :
                    \/ nodes[i] = <<>> /\ emitted[i].lines = <<PassLine>>
                    \/ /\ nodes[i] # <<>>
                       /\ Len(emitted[i].lines) = Len(nodes[i])
                       /\ \A l \in 1..Len(nodes[i]) :
                             nodes[i][l].struct <=> emitted[i].lines[l].kind = "struct"

\* a finished call with a class two levels below another
C2_Witness ==
    /\ pc = "done"
    /\ \E i, j \in 1..Len(emitted) :
          /\ \E l \in 1..Len(emitted[i].lines) :
                emitted[i].lines[l].kind = "struct" /\ emitted[i].lines[l].head = emitted[j].cls
          /\ \E l \in 1..Len(emitted[j].lines) : emitted[j].lines[l].kind = "struct"

(***************************************************************************)
(* C3: the invalid-identifier error lists every offending dotted path of   *)
(* every schema tree of the call, all roots included, each once.           *)
(***************************************************************************)
C3_ErrorListsEveryPath ==
    pc = "error" =>
        /\ Range(error.paths) =
               UNION { OffendingPaths(schemas_by_root[i].v, <<>>)
                       : i \in 1..Len(schemas_by_root) }
        /\ \A i, j \in 1..Len(error.paths) : i # j => error.paths[i] # error.paths[j]

C5_ClassNamesLegal == \A i \in 1..Len(emitted) : LegalName(emitted[i].cls)

(***************************************************************************)
(* Blocks and the struct nodes they were built from                        *)
(***************************************************************************)
\* the struct nodes of the call, in the order of their blocks
Nodes == NodesOfRoots(Len(schemas_by_root))

\* the key of line l of block i
KeyOf(i, l) == Nodes[i][l].k

IsLeafLine(i, l) == ~Nodes[i][l].struct

HasNameArg(line) == \E a \in 1..Len(line.args) : line.args[a].kw = "name"

NameArg(line) == line.args[CHOOSE a \in 1..Len(line.args) : line.args[a].kw = "name"].val

\* the attribute names written above line l of block i
EarlierAttrs(i, l) == {emitted[i].lines[m].attr : m \in 1..(l - 1)}

EndsWith(s, suffix) ==
    /\ Len(suffix) <= Len(s)
    /\ SubSeq(s, Len(s) - Len(suffix) + 1, Len(s)) = suffix

\* name, or name followed by an integer from 2 on
NameOrNumbered(n, name) ==
    \/ n = name
    \/ \E c \in 2..(Len(emitted) + 1) : n = name \o IntToStr(c)

RootHasAddress(r) ==
    \E l \in 1..Len(schemas_by_root[r].v) :
        schemas_by_root[r].v[l].struct /\ schemas_by_root[r].v[l].k = K_address

\* the class name on the annotation line of field address of root r
AddressClass(r) ==
    LET b == CHOOSE i \in 1..Len(emitted) : emitted[i].cls = actual_root_names[r]
        l == CHOOSE m \in 1..Len(schemas_by_root[r].v) :
                 schemas_by_root[r].v[m].k = K_address
    IN  emitted[b].lines[l].head

C7_AttrNamesLegal ==
    \A i \in 1..Len(emitted) :
        \A l \in 1..Len(emitted[i].lines) :
            emitted[i].lines[l].kind # "pass" => LegalName(emitted[i].lines[l].attr)

\* a class body built from a keyword key and a key that starts with a digit
C7_Witness ==
    /\ pc = "done"
    /\ \E i \in 1..Len(emitted) :
          {<<"i", "f", "_">>, <<"_", "1", "s", "t">>}
              \subseteq {emitted[i].lines[l].attr : l \in 1..Len(emitted[i].lines)}

(***************************************************************************)
(* C8, as claimed: a leaf line carries the original-name argument if       *)
(* sanitizing changed the key and carries none if sanitizing left the key  *)
(* unchanged, also when the unchanged key collides with an earlier         *)
(* sibling's name.                                                         *)
(***************************************************************************)
C8_NameArgIffSanitizingChangedKey ==
    Built =>
        \A i \in 1..Len(emitted) :
            \A l \in 1..Len(Nodes[i]) :
                IsLeafLine(i, l) =>
                    (HasNameArg(emitted[i].lines[l])
                        <=> _sanitize_ident(KeyOf(i, l)) # KeyOf(i, l))

(***************************************************************************)
(* C8, amended: a leaf line carries the original-name argument exactly     *)
(* when its attribute name differs from the key: when sanitizing changed   *)
(* the key, or when the unchanged key was already used as an attribute     *)
(* name in the class and got an _N suffix.                                 *)
(***************************************************************************)
C8_NameArgIffAttrDiffersFromKey ==
    Built =>
        \A i \in 1..Len(emitted) :
            \A l \in 1..Len(Nodes[i]) :
                IsLeafLine(i, l) =>
                    (HasNameArg(emitted[i].lines[l])
                        <=> \/ _sanitize_ident(KeyOf(i, l)) # KeyOf(i, l)
                            \/ KeyOf(i, l) \in EarlierAttrs(i, l))

\* value-expression mode: an unchanged key that collides carries the argument
C8_Witness ==
    /\ pc = "done"
    /\ include_dtypes = "as_values"
    /\ \E i \in 1..Len(emitted) :
          \E l \in 1..Len(Nodes[i]) :
              /\ IsLeafLine(i, l)
              /\ HasNameArg(emitted[i].lines[l])
              /\ _sanitize_ident(KeyOf(i, l)) = KeyOf(i, l)

(***************************************************************************)
(* Reading a string literal of the host language between double quotes:    *)
(* the text it denotes, or a syntax error.                                 *)
(***************************************************************************)
Escapes ==
    [c \in {"\\", "\"", "'", "n", "t", "r", "a", "b", "f", "v"} |->
        CASE c = "n" -> "\n"
          [] c = "t" -> "\t"
          [] c = "r" -> "\r"
          [] c = "a" -> "BEL"
          [] c = "b" -> "BS"
          [] c = "f" -> "\f"
          [] c = "v" -> "VT"
          [] OTHER -> c]

RECURSIVE ReadLiteralBody(_, _)
ReadLiteralBody(s, acc) ==
    IF s = <<>> \/ Head(s) = "\n" THEN [ok |-> FALSE, value |-> <<>>]
    ELSE IF Head(s) = "\"" THEN [ok |-> Tail(s) = <<>>, value |-> acc]
    ELSE IF Head(s) = "\\"
    THEN IF Len(s) < 2 THEN [ok |-> FALSE, value |-> <<>>]
         ELSE IF s[2] = "\n" THEN ReadLiteralBody(SubSeq(s, 3, Len(s)), acc)
         ELSE IF s[2] \in DOMAIN Escapes
         THEN ReadLiteralBody(SubSeq(s, 3, Len(s)), Append(acc, Escapes[s[2]]))
         ELSE ReadLiteralBody(SubSeq(s, 3, Len(s)), acc \o <<"\\", s[2]>>)
    ELSE ReadLiteralBody(Tail(s), Append(acc, Head(s)))

ReadLiteral(text) ==
    IF text # <<>> /\ Head(text) = "\""
    THEN ReadLiteralBody(Tail(text), <<>>)
    ELSE [ok |-> FALSE, value |-> <<>>]

(***************************************************************************)
(* C9: the string literal of an original-name argument denotes exactly     *)
(* the unsanitized key, whatever characters the key holds.                 *)
(***************************************************************************)
C9_NameLiteralDenotesKey ==
    Built =>
        \A i \in 1..Len(emitted) :
            \A l \in 1..Len(Nodes[i]) :
                (IsLeafLine(i, l) /\ HasNameArg(emitted[i].lines[l])) =>
                    ReadLiteral(NameArg(emitted[i].lines[l]))
                        = [ok |-> TRUE, value |-> KeyOf(i, l)]

(***************************************************************************)
(* De-duplicated attribute names                                           *)
(***************************************************************************)
Numbered(base, c) == base \o <<"_">> \o IntToStr(c)

\* base followed by _N, N the smallest integer from 2 on that is free
SmallestFree(seen, base) ==
    Numbered(base,
             CHOOSE c \in 2..(Cardinality(seen) + 2) :
                 /\ Numbered(base, c) \notin seen
                 /\ \A m \in 2..(c - 1) : Numbered(base, m) \in seen)

AttrsDistinct(i) ==
    \A l, m \in 1..Len(emitted[i].lines) :
        l # m => emitted[i].lines[l].attr # emitted[i].lines[m].attr

\* the keys above line l of block i that sanitize to the same name
EarlierSameBase(i, l) ==
    {m \in 1..(l - 1) : _sanitize_ident(KeyOf(i, m)) = _sanitize_ident(KeyOf(i, l))}

LaterSameBase(i, l) ==
    {m \in (l + 1)..Len(Nodes[i]) :
        _sanitize_ident(KeyOf(i, m)) = _sanitize_ident(KeyOf(i, l))}

(***************************************************************************)
(* C10, as claimed: the attribute names of a class are pairwise distinct;  *)
(* of several sibling keys that sanitize to the same name the first keeps  *)
(* the sanitized name and each later one gets it followed by _N, N the     *)
(* smallest integer from 2 on not yet used in the class.                   *)
(***************************************************************************)
C10_FirstKeepsSanitizedName ==
    Built =>
        \A i \in 1..Len(emitted) :
            /\ AttrsDistinct(i)
            /\ \A l \in 1..Len(Nodes[i]) :
                  LET base == _sanitize_ident(KeyOf(i, l))
                  IN  /\ (EarlierSameBase(i, l) = {} /\ LaterSameBase(i, l) # {}) =>
                             emitted[i].lines[l].attr = base
                      /\ EarlierSameBase(i, l) # {} =>
                             emitted[i].lines[l].attr
                                 = SmallestFree(EarlierAttrs(i, l), base)

(***************************************************************************)
(* C10, amended: the attribute names of a class are pairwise distinct; a   *)
(* key keeps its sanitized name when no line above it in the class has     *)
(* that attribute name, and otherwise gets it followed by _N, N the        *)
(* smallest integer from 2 on not yet used in the class.  So the first of  *)
(* several keys that sanitize to one name keeps it unless that name was    *)
(* handed out above as a de-duplicated name.  Only the lines of the same   *)
(* class count.                                                            *)
(***************************************************************************)
C10_AttrNamesDeduplicated ==
    Built =>
        \A i \in 1..Len(emitted) :
            /\ AttrsDistinct(i)
            /\ \A l \in 1..Len(Nodes[i]) :
                  LET base == _sanitize_ident(KeyOf(i, l))
                  IN  emitted[i].lines[l].attr =
                          IF base \in EarlierAttrs(i, l)
                          THEN SmallestFree(EarlierAttrs(i, l), base)
                          ELSE base

\* a, a_2 by de-duplication, then the key a_2 and one more key like it
C10_Witness ==
    /\ pc = "done"
    /\ \E i \in 1..Len(emitted) :
          /\ Len(emitted[i].lines) = 4
          /\ emitted[i].lines[1].attr = <<"a">>
          /\ emitted[i].lines[2].attr = <<"a", "_", "2">>
          /\ emitted[i].lines[3].attr = <<"a", "_", "2", "_", "2">>
          /\ emitted[i].lines[4].attr = <<"a", "_", "2", "_", "3">>

(***************************************************************************)
(* Struct nodes by position: <<r>> is root r, and Append(p, i) is the      *)
(* struct held by field i of the node at p.                                *)
(***************************************************************************)
RECURSIVE TreeAtIn(_, _)
TreeAtIn(tree, p) == IF p = <<>> THEN tree ELSE TreeAtIn(tree[Head(p)].sub, Tail(p))

TreeAt(p) == TreeAtIn(schemas_by_root[p[1]].v, Tail(p))

\* the key of the struct at p; for a root, its converted name
KeyAt(p) ==
    IF Len(p) = 1 THEN schemas_by_root[p[1]].k
    ELSE TreeAt(SubSeq(p, 1, Len(p) - 1))[p[Len(p)]].k

\* a parent before its children, siblings in key order
RECURSIVE PreOrderFrom(_, _, _)
PreOrderFrom(p, i, visit_self) ==
    IF visit_self THEN <<p>> \o PreOrderFrom(p, 1, FALSE)
    ELSE IF i > Len(TreeAt(p)) THEN <<>>
    ELSE (IF TreeAt(p)[i].struct THEN PreOrderFrom(Append(p, i), 1, TRUE) ELSE <<>>)
             \o PreOrderFrom(p, i + 1, FALSE)

\* children before their parent: the order of the blocks
RECURSIVE PostOrderFrom(_, _)
PostOrderFrom(p, i) ==
    IF i > Len(TreeAt(p)) THEN <<p>>
    ELSE (IF TreeAt(p)[i].struct THEN PostOrderFrom(Append(p, i), 1) ELSE <<>>)
             \o PostOrderFrom(p, i + 1)

RECURSIVE PreOrderOfRoots(_)
PreOrderOfRoots(n) ==
    IF n = 0 THEN <<>> ELSE PreOrderOfRoots(n - 1) \o PreOrderFrom(<<n>>, 1, TRUE)

RECURSIVE PostOrderOfRoots(_)
PostOrderOfRoots(n) ==
    IF n = 0 THEN <<>> ELSE PostOrderOfRoots(n - 1) \o PostOrderFrom(<<n>>, 1)

\* the structs of the call in first-seen order, and in block order
SeenOrder == PreOrderOfRoots(Len(schemas_by_root))

BlockOrder == PostOrderOfRoots(Len(schemas_by_root))

BlockOf(p) == CHOOSE i \in 1..Len(BlockOrder) : BlockOrder[i] = p

ClassAt(p) == emitted[BlockOf(p)].cls

\* the suggested class name of the struct at p: the converted root name
\* for a root, the converted key for a nested struct, followed in
\* multi-root mode by the converted name of its root
SuggestedAt(p) ==
    IF Len(p) = 1 THEN schemas_by_root[p[1]].k
    ELSE IF multi_roots THEN _to_class_name(KeyAt(p)) \o schemas_by_root[p[1]].k
    ELSE _to_class_name(KeyAt(p))

\* the class names of the structs seen before position n of SeenOrder
SeenBefore(n) == {ClassAt(SeenOrder[m]) : m \in 1..(n - 1)}

\* name followed by the smallest integer from 2 on that is free
SmallestFreeClass(seen, name) ==
    name \o IntToStr(CHOOSE c \in 2..(Cardinality(seen) + 2) :
                         /\ name \o IntToStr(c) \notin seen
                         /\ \A m \in 2..(c - 1) : name \o IntToStr(m) \in seen)

\* the structs seen before position n that have the same suggested name
EarlierSameSuggested(n) ==
    {m \in 1..(n - 1) : SuggestedAt(SeenOrder[m]) = SuggestedAt(SeenOrder[n])}

(***************************************************************************)
(* C11, as claimed: a struct whose suggested name is already used gets     *)
(* the name followed by the smallest free integer from 2 on; of the        *)
(* structs with one suggested name the first seen keeps the plain name     *)
(* and the later ones get 2, 3, ... in that order.                         *)
(***************************************************************************)
C11_FirstSeenKeepsPlainName ==
    Built =>
        \A n \in 1..Len(SeenOrder) :
            LET name == SuggestedAt(SeenOrder[n])
                c == Cardinality(EarlierSameSuggested(n))
            IN  /\ name \in SeenBefore(n) =>
                       ClassAt(SeenOrder[n]) = SmallestFreeClass(SeenBefore(n), name)
                /\ c = 0 => ClassAt(SeenOrder[n]) = name
                /\ c > 0 => ClassAt(SeenOrder[n]) = name \o IntToStr(c + 1)

(***************************************************************************)
(* C11, amended: a struct keeps its suggested name when no struct seen     *)
(* before it in the call (roots in declaration order, a parent before its  *)
(* children, siblings in key order) has that class name, and otherwise     *)
(* gets it followed, without separator, by the smallest integer from 2 on  *)
(* that gives a name unused in the whole call.  So of the structs with     *)
(* one suggested name the first seen keeps the plain name unless it was    *)
(* handed out before as a numbered name, and the numbers of the later      *)
(* ones increase but may skip a value already taken.                       *)
(***************************************************************************)
C11_ClassNamesDeduplicated ==
    Built =>
        /\ Len(BlockOrder) = Len(emitted)
        /\ \A n \in 1..Len(SeenOrder) :
              LET name == SuggestedAt(SeenOrder[n])
              IN  /\ ClassAt(SeenOrder[n]) =
                         IF name \in SeenBefore(n)
                         THEN SmallestFreeClass(SeenBefore(n), name)
                         ELSE name
                  /\ \A m \in EarlierSameSuggested(n) :
                        \/ ClassAt(SeenOrder[m]) = name
                        \/ \E a, b \in 2..(Len(emitted) + 1) :
                              /\ a < b
                              /\ ClassAt(SeenOrder[m]) = name \o IntToStr(a)
                              /\ ClassAt(SeenOrder[n]) = name \o IntToStr(b)

\* Address, then Address2 by de-duplication, then a struct that asks for
\* Address2 and gets Address22
C11_Witness ==
    /\ pc = "done"
    /\ \E n \in 1..Len(SeenOrder) :
          /\ SuggestedAt(SeenOrder[n]) = Append(K_Address, "2")
          /\ ClassAt(SeenOrder[n]) = K_Address \o <<"2", "2">>

(***************************************************************************)
(* The calls of the process that have ended, the one in hand included      *)
(***************************************************************************)
EndedCalls == Range(calls) \cup (IF Ended THEN {ThisCall} ELSE {})

SameOutcome(a, b) ==
    /\ a.pc = b.pc
    /\ a.result = b.result
    /\ a.error = b.error
    /\ a.disk = b.disk
    /\ a.printed = b.printed

ClassNamesOf(text) == {text.blocks[i].cls : i \in 1..Len(text.blocks)}

(***************************************************************************)
(* C12: two calls with the same input and the same options return the      *)
(* same text, whatever calls the process made before and in between; the   *)
(* used-name set and the list of emitted blocks are empty when a call      *)
(* starts to build its first root.  A call that is given a destination     *)
(* depends on nothing but its arguments and the file system it starts      *)
(* from.                                                                   *)
(***************************************************************************)
C12_SameCallSameText ==
    /\ \A a, b \in EndedCalls :
          a.args = b.args =>
              /\ ~a.args.path.given =>
                    a.pc = b.pc /\ a.result = b.result /\ a.error = b.error
              /\ a.disk0 = b.disk0 => SameOutcome(a, b)
    /\ (pc = "build" /\ actual_root_names = <<>>) =>
          emitted = <<>> /\ used_class_names = {}

\* the third call of the process repeats the first, after a different call
\* that reserved one of the same class names
C12_Witness ==
    /\ pc = "done"
    /\ Len(calls) = 2
    /\ calls[1].args = ThisCall.args
    /\ calls[2].args # ThisCall.args
    /\ calls[1].pc = "done"
    /\ calls[2].pc = "done"
    /\ ClassNamesOf(calls[2].result) \cap ClassNamesOf(result) # {}
    /\ Append(K_Address, "2") \in ClassNamesOf(result)

(***************************************************************************)
(* C13: a mapping with the one entry k: S compiles to exactly what the     *)
(* bare schema S compiles to under the root display name k, for the same   *)
(* options: the same text or the same error, and in both calls the         *)
(* single-root naming is used.                                             *)
(***************************************************************************)
SingletonOf(a, b) ==
    /\ a.args.data.mapping
    /\ Len(a.args.data.items) = 1
    /\ ~b.args.data.mapping
    /\ b.args.data.items[1].v = a.args.data.items[1].v
    /\ b.args.root_class_name = a.args.data.items[1].k
    /\ b.args.include_dtypes = a.args.include_dtypes
    /\ b.args.allow_nulls = a.args.allow_nulls
    /\ b.args.path = a.args.path
    /\ b.args.print_usage_suggestion = a.args.print_usage_suggestion
    /\ b.disk0 = a.disk0

C13_SingletonMappingAsBare ==
    /\ \A a, b \in EndedCalls : SingletonOf(a, b) => SameOutcome(a, b)
    /\ (pc \in {"validate", "header", "build", "return", "done"}
            /\ data.mapping /\ Len(data.items) = 1) => ~multi_roots

\* a one-entry mapping with nested structs has returned its text, after
\* the bare schema was compiled under the entry's key
C13_Witness ==
    /\ pc = "done"
    /\ Len(result.blocks) >= 3
    /\ \E b \in Range(calls) : SingletonOf(ThisCall, b) /\ b.pc = "done"

(***************************************************************************)
(* C14: for a mapping of n entries under arbitrary string keys the export  *)
(* line names exactly n classes, one root class per entry in the order of  *)
(* the entries, none of them the class of a nested struct, and every       *)
(* entry's schema has its own root class block.                            *)
(***************************************************************************)
C14_OneRootClassPerEntry ==
    (Built /\ data.mapping) =>
        /\ Len(actual_root_names) = Len(data.items)
        /\ blueprint.all_line # <<>> =>
               blueprint.all_line
                   = <<"__all__ = [">> \o JoinReprs(actual_root_names) \o <<"]">>
        /\ \A n \in 1..Len(actual_root_names) :
              /\ \E i \in 1..Len(emitted) :
                    /\ emitted[i].cls = actual_root_names[n]
                    /\ n <= Len(data.items) =>
                           Len(emitted[i].lines) = IF data.items[n].v = <<>> THEN 1
                                                   ELSE Len(data.items[n].v)
              /\ \A i \in 1..Len(emitted) :
                    \A l \in 1..Len(emitted[i].lines) :
                        emitted[i].lines[l].kind = "struct" =>
                            emitted[i].lines[l].head # actual_root_names[n]

(***************************************************************************)
(* The destination, as the caller sees it when the call begins             *)
(***************************************************************************)
\* the name is a non-empty stem followed by .py
HasPySuffix(p) == Len(PathName(p)) > Len(K_dot_py) /\ EndsWith(PathName(p), K_dot_py)

ParentIsDirectory(p) == disk0[PathParent(p)].kind = "dir"

DestinationTaken(p) == disk0[p].kind \in {"file", "dir"}

(***************************************************************************)
(* C15: in file mode, once the schema has compiled, a destination without  *)
(* the .py suffix ends the call in a ValueError; otherwise a parent that   *)
(* is missing or no directory ends it in a FileNotFoundError; otherwise a  *)
(* destination that exists ends it in a FileExistsError; the file is       *)
(* written, with the text of the call, only when none of the three holds.  *)
(***************************************************************************)
C15_DestinationErrorsByPrecedence ==
    LET p == path.parts
    IN  /\ pc \in {"path_error", "written"} => path.given /\ blueprint.blocks # <<>>
        /\ pc = "path_error" =>
              error.kind = IF ~HasPySuffix(p) THEN "ValueError"
                           ELSE IF ~ParentIsDirectory(p) THEN "FileNotFoundError"
                           ELSE "FileExistsError"
        /\ pc = "path_error" =>
              ~HasPySuffix(p) \/ ~ParentIsDirectory(p) \/ DestinationTaken(p)
        /\ pc = "written" =>
              /\ HasPySuffix(p) /\ ParentIsDirectory(p) /\ ~DestinationTaken(p)
              /\ disk = [disk0 EXCEPT ![p] = File(blueprint)]
        /\ disk # disk0 => pc = "written"

\* a wrong suffix under a missing parent: the ValueError wins
C15_Witness ==
    /\ pc = "path_error"
    /\ error.kind = "ValueError"
    /\ ~HasPySuffix(path.parts)
    /\ ~ParentIsDirectory(path.parts)

(***************************************************************************)
(* C16: a call in file mode that fails, because of a struct key or of the  *)
(* destination, leaves the file system as it found it: nothing is          *)
(* created, and a destination that existed keeps its contents.             *)
(***************************************************************************)
C16_FailureLeavesDiskUnchanged ==
    /\ pc \in {"error", "path_error"} => disk = disk0
    /\ (path.given /\ pc # "written") => disk = disk0

\* the destination was a file before the call, and still holds its text
C16_Witness ==
    /\ pc = "path_error"
    /\ error.kind = "FileExistsError"
    /\ disk0[path.parts] = File(OldText)
    /\ disk[path.parts] = File(OldText)

(***************************************************************************)
(* C17: in file mode, when the parent directory of the destination does    *)
(* not exist, the call fails before the schema is validated and before     *)
(* any class block is rendered.                                            *)
(***************************************************************************)
C17_BadDestinationFailsFirst ==
    (path.given /\ disk0[PathParent(path.parts)].kind = "absent") =>
        /\ pc \in {"normalize", "validate", "path_error"}
        /\ emitted = <<>>
        /\ blueprint = NoText
        /\ error.kind \in {"", "ValueError", "FileNotFoundError"}
        /\ error.paths = <<>>

(***************************************************************************)
(* C18: in each of the three rendering modes a leaf line, for a scalar, a  *)
(* list or an array, carries the argument allow_nulls=<policy> exactly     *)
(* when the policy is True or False, once, as the last argument: after     *)
(* the dtype argument and after the original-name argument when they are   *)
(* present; with the policy None no leaf line carries it; annotation       *)
(* lines of nested structs carry no argument at all.                       *)
(***************************************************************************)
KwsOf(line) == [a \in 1..Len(line.args) |-> line.args[a].kw]

C18_AllowNullsArgument ==
    Built =>
        \A i \in 1..Len(emitted) :
            \A l \in 1..Len(emitted[i].lines) :
                LET line == emitted[i].lines[l]
                    kws == KwsOf(line)
                    n == Len(kws)
                IN  /\ line.kind # "leaf" => line.args = <<>>
                    /\ line.kind = "leaf" =>
                          /\ ("allow_nulls" \in Range(kws)) <=> (allow_nulls \in {"True", "False"})
                          /\ allow_nulls \in {"True", "False"} =>
                                /\ n >= 1
                                /\ line.args[n] = [kw |-> "allow_nulls", val |-> <<allow_nulls>>]
                                /\ \A a \in 1..(n - 1) : kws[a] \in {"dtype", "name"}
                          /\ \A a, b \in 1..n : (a < b /\ kws[b] = "dtype") => FALSE
                          /\ \A a, b \in 1..n : a # b => kws[a] # kws[b]

\* value-expression mode, policy True: an array under a key that
\* sanitizing changed carries dtype, name and allow_nulls, in that order
C18_Witness ==
    /\ pc = "done"
    /\ include_dtypes = "as_values"
    /\ allow_nulls = "True"
    /\ \E i \in 1..Len(emitted) :
          \E l \in 1..Len(emitted[i].lines) :
              /\ emitted[i].lines[l].head = <<"pg.vcol.Array">>
              /\ KwsOf(emitted[i].lines[l]) = <<"dtype", "name", "allow_nulls">>

(***************************************************************************)
(* Reading the text of an argument: the names it refers to outside of      *)
(* string literals                                                         *)
(***************************************************************************)
\* the fragments the dtype renderer writes that name the pl namespace
PlFragments ==
    {"pl.List(", "pl.Array(", "pl.Struct([", "pl.Field("}
    \cup {"pl." \o n : n \in {"Int64", "Utf8"}}

\* text s, read from outside a literal (q = "") or from inside one opened
\* by the quote q, after the character prev, refers to the name pl
RECURSIVE RefersToPl(_, _, _)
RefersToPl(s, q, prev) ==
    IF s = <<>> THEN FALSE
    ELSE LET c == Head(s)
         IN  IF q = ""
             THEN IF c \in {"\"", "'"} THEN RefersToPl(Tail(s), c, c)
                  ELSE IF c \in PlFragments THEN TRUE
                  ELSE IF /\ c = "p"
                          /\ Len(s) >= 3
                          /\ s[2] = "l"
                          /\ s[3] = "."
                          /\ prev \notin WordChars
                       THEN TRUE
                  ELSE RefersToPl(Tail(s), q, c)
             ELSE IF c = "\\" THEN RefersToPl(Tail(Tail(s)), q, c)
                  ELSE IF c = q THEN RefersToPl(Tail(s), "", c)
                  ELSE RefersToPl(Tail(s), q, c)

LineRefersToPl(line) ==
    \E a \in 1..Len(line.args) : RefersToPl(line.args[a].val, "", "=")

(***************************************************************************)
(* C19: the header holds the line import polars as pl exactly in           *)
(* value-expression mode, and a field line refers to the pl namespace      *)
(* only in that mode: every reference to pl is covered by the import.      *)
(***************************************************************************)
C19_PlImportedIffReferenced ==
    /\ pc \in {"build", "return", "done"} =>
          (("import polars as pl" \in Range(header)) <=> include_dtypes = "as_values")
    /\ Built =>
          \A i \in 1..Len(emitted) :
              \A l \in 1..Len(emitted[i].lines) :
                  LineRefersToPl(emitted[i].lines[l]) =>
                      "import polars as pl" \in Range(blueprint.header)

(***************************************************************************)
(* C20: a struct without keys, a root or nested at any depth, compiles     *)
(* to a block of its own: the class line and the placeholder body, no      *)
(* field line; its class name is the name of no other block, and the       *)
(* annotation line of its field in the parent's block names it.            *)
(***************************************************************************)
C20_EmptyStructGetsOwnClass ==
    Built =>
        /\ error = NoError
        /\ Len(emitted) = Len(BlockOrder)
        /\ \A n \in 1..Len(BlockOrder) :
              LET p == BlockOrder[n]
              IN  TreeAt(p) = <<>> =>
                      /\ emitted[n].lines = <<PassLine>>
                      /\ \A m \in 1..Len(emitted) : m # n => emitted[m].cls # emitted[n].cls
                      /\ Len(p) > 1 =>
                            LET parent == emitted[BlockOf(SubSeq(p, 1, Len(p) - 1))]
                            IN  /\ Len(parent.lines) >= p[Len(p)]
                                /\ parent.lines[p[Len(p)]].kind = "struct"
                                /\ parent.lines[p[Len(p)]].head = emitted[n].cls

\* two empty structs two levels below the root, with different class names
C20_Witness ==
    /\ pc = "done"
    /\ \E p, q \in Range(BlockOrder) :
          /\ Len(p) = 3 /\ Len(q) = 3 /\ p # q
          /\ TreeAt(p) = <<>> /\ TreeAt(q) = <<>>
          /\ ClassAt(p) # ClassAt(q)

(***************************************************************************)
(* The line of a key: its attribute name is the sanitized key, or that     *)
(* followed by _N; a struct key's line names the class of its struct; a    *)
(* leaf key's line, when it carries the original-name argument, carries    *)
(* the key between the quotes.                                             *)
(***************************************************************************)
IsLineOfKey(line, p, l) ==
    LET e == TreeAt(p)[l]
        base == _sanitize_ident(e.k)
    IN  /\ \/ line.attr = base
           \/ \E c \in 2..(Len(TreeAt(p)) + 1) : line.attr = Numbered(base, c)
        /\ IF e.struct
           THEN line.kind = "struct" /\ line.head = ClassAt(Append(p, l))
           ELSE /\ line.kind = "leaf"
                /\ line.head = LeafCall(e.dt, <<>>, <<>>).head
                /\ IF HasNameArg(line)
                   THEN NameArg(line) = <<"\"">> \o e.k \o <<"\"">>
                   ELSE line.attr = e.k

(***************************************************************************)
(* C21: the block of every non-empty struct has exactly one field line     *)
(* per key of its schema tree, the lines of leaves and of nested structs   *)
(* interleaved in the insertion order of the keys: line l is the line of   *)
(* key l, and no key is dropped, doubled or moved.                         *)
(***************************************************************************)
C21_OneLinePerKeyInOrder ==
    Built =>
        /\ Len(emitted) = Len(BlockOrder)
        /\ \A n \in 1..Len(BlockOrder) :
              LET p == BlockOrder[n]
              IN  TreeAt(p) # <<>> =>
                      /\ Len(emitted[n].lines) = Len(TreeAt(p))
                      /\ \A l \in 1..Len(TreeAt(p)) :
                            IsLineOfKey(emitted[n].lines[l], p, l)

\* a struct line between two leaf lines whose keys sanitize to one name
C21_Witness ==
    /\ pc = "done"
    /\ \E n \in 1..Len(emitted) :
          /\ Len(emitted[n].lines) = 3
          /\ emitted[n].lines[1].kind = "leaf"
          /\ emitted[n].lines[2].kind = "struct"
          /\ emitted[n].lines[3].kind = "leaf"
          /\ emitted[n].lines[3].attr = Numbered(emitted[n].lines[1].attr, 2)

(***************************************************************************)
(* The type expression that mirrors a descriptor: pl.T for a scalar tag    *)
(* T, pl.List(<inner>) for a list, pl.Array(<inner>, <width>) for an       *)
(* array, pl.Struct([pl.Field(<name>, <inner>), ...]) for a struct value,  *)
(* one entry per member in declared order.                                 *)
(***************************************************************************)
RECURSIVE MirrorExpr(_)
RECURSIVE MirrorFields(_)
MirrorFields(members) ==
    IF members = <<>> THEN <<>>
    ELSE <<"pl.Field(">> \o PyRepr(members[1].name) \o <<", ">>
             \o MirrorExpr(members[1].dtype) \o <<")">>
             \o (IF Len(members) > 1 THEN <<", ">> ELSE <<>>)
             \o MirrorFields(Tail(members))

MirrorExpr(dt) ==
    CASE dt.name = "List" -> <<"pl.List(">> \o MirrorExpr(dt.inner[1]) \o <<")">>
      [] dt.name = "Array" ->
             <<"pl.Array(">> \o MirrorExpr(dt.inner[1]) \o <<", ">>
                 \o IntToStr(dt.shape[1]) \o <<")">>
      [] dt.name = "Struct" -> <<"pl.Struct([">> \o MirrorFields(dt.fields) \o <<"])">>
      [] OTHER -> <<"pl." \o dt.name>>

(***************************************************************************)
(* C22: in value-expression mode the dtype argument of every leaf line is  *)
(* the expression that mirrors the leaf's descriptor at every depth: a     *)
(* scalar as pl.T, a list as pl.List(<inner>), an array as                 *)
(* pl.Array(<inner>, <width>), a struct value as pl.Struct([...]) with     *)
(* one pl.Field entry per member in declared order.                        *)
(***************************************************************************)
C22_DtypeExprMirrorsDescriptor ==
    (Built /\ include_dtypes = "as_values") =>
        \A n \in 1..Len(BlockOrder) :
            \A l \in 1..Len(TreeAt(BlockOrder[n])) :
                ~TreeAt(BlockOrder[n])[l].struct =>
                    /\ Len(emitted[n].lines[l].args) >= 1
                    /\ emitted[n].lines[l].args[1] =
                           [kw |-> "dtype", val |-> MirrorExpr(TreeAt(BlockOrder[n])[l].dt)]

(***************************************************************************)
(* C23: in file mode with the usage suggestion on, the class names of the  *)
(* heading and of the import line of the suggestion are the resolved root  *)
(* class names: the names, in the order, of the export line of the text    *)
(* written to the file.                                                    *)
(***************************************************************************)
C23_SuggestionNamesResolvedRoots ==
    (pc = "written" /\ print_usage_suggestion) =>
        /\ disk[path.parts].text.all_line
               = <<"__all__ = [">> \o JoinReprs(actual_root_names) \o <<"]">>
        /\ printed.heading
               = <<"# ------- Suggested usage for models ">> \o JoinCommas(actual_root_names)
        /\ printed.import_line
               = <<"from ">> \o JoinDots(PathWithoutSuffix(path.parts)) \o <<" import ">>
                     \o JoinCommas(actual_root_names)

(***************************************************************************)
(* C24: the class name of a nested struct is built from its converted key  *)
(* followed by the converted name of its root exactly when the normalized  *)
(* root set of the call holds more than one root, and from the converted   *)
(* key alone when it holds one root, a mapping whose keys all convert to   *)
(* one root name included; the class name of a root is built from the      *)
(* converted root name alone.  A de-duplication integer may follow.        *)
(***************************************************************************)
C24_SuffixIffSeveralNormalizedRoots ==
    Built =>
        \A n \in 1..Len(BlockOrder) :
            LET p == BlockOrder[n]
                root_name == schemas_by_root[p[1]].k
            IN  NameOrNumbered(emitted[n].cls,
                               IF Len(p) = 1 THEN root_name
                               ELSE IF Len(schemas_by_root) > 1
                               THEN _to_class_name(KeyAt(p)) \o root_name
                               ELSE _to_class_name(KeyAt(p)))

(***************************************************************************)
(* C25: the attribute name on the annotation line of a nested struct is    *)
(* the key of the struct in the schema, for every key that passes the      *)
(* identifier validation: keys with leading or trailing underscores, the   *)
(* key _, keys with letters outside ASCII, and a key that equals the       *)
(* sanitized name of an earlier sibling leaf.                              *)
(***************************************************************************)
C25_StructAttrIsKey ==
    Built =>
        \A n \in 1..Len(BlockOrder) :
            \A l \in 1..Len(TreeAt(BlockOrder[n])) :
                TreeAt(BlockOrder[n])[l].struct =>
                    /\ emitted[n].lines[l].kind = "struct"
                    /\ emitted[n].lines[l].args = <<>>
                    /\ emitted[n].lines[l].attr = TreeAt(BlockOrder[n])[l].k

====
